---- MODULE Spec2Model ----
(***************************************************************************)
(* Polynomials over generic rings (src/src/gr/polynomial.c).               *)
(*                                                                         *)
(* Four specifications share this module:                                  *)
(*   SpecInit   - concurrent first calls of gr_ctx_init_gr_poly and the    *)
(*                lazy construction of the shared method table;            *)
(*   SpecCtx    - context life cycle: construction, generator name,        *)
(*                destruction, context predicates;                         *)
(*   SpecArith  - polynomial_mul and polynomial_div over a base ring;      *)
(*   SpecCoerce - polynomial_set_other and the element constructors that   *)
(*                write coefficients directly.                             *)
(* Each specification leaves the variables of the others at their initial  *)
(* values.                                                                 *)
(***************************************************************************)
EXTENDS Integers, Sequences, FiniteSets, TLC

VARIABLES
    \* ---- SpecInit
    pc,            \* thread -> position inside gr_ctx_init_gr_poly
    initialized,   \* _gr_poly_methods_initialized
    tabCalls,      \* number of gr_method_tab_init calls on _gr_poly_methods
    tabWriters,    \* threads currently inside gr_method_tab_init
    lateWrite,     \* a table write started after some constructor had returned
    racyUse,       \* a constructed context dispatched while the table was written
    \* ---- SpecArith
    aCall,         \* the last call: operation, operands, res before, degree_limit
    aRet,          \* what it returned: status, and res, x, y afterwards
    \* ---- SpecCtx
    ctxState,      \* context -> "uninit", "live" or "cleared"
    ctxVar,        \* context -> POLYNOMIAL_CTX(ctx)->var, an address
    ctxBase,       \* context -> POLYNOMIAL_CTX(ctx)->base_ring
    ctxLimit,      \* context -> POLYNOMIAL_CTX(ctx)->degree_limit
    heap,          \* allocation -> its state, contents, owner and free count
    defaultMem,    \* the static string default_var points to, and frees of it
    ctxCall,       \* the last life-cycle call and the fields before it
    \* ---- SpecPred
    pCall,         \* the last context predicate asked, and the answer
    \* ---- SpecCoerce
    cCall,         \* the last call: operation, contexts, foreign value, and
                   \* what the base ring's own operations produce in it
    cRet,          \* what it returned: rule taken, status, res
    \* ---- SpecMixed
    mCall,         \* the mixed multiplication in progress and its arguments
    mPc,           \* the statement it is at
    mTemp,         \* the temporary t: live or not, its value, and how often
                   \* one was initialised and cleared
    mRet,          \* status so far, res, and the calls of polynomial_mul
    \* ---- SpecAlias
    dCall,         \* the polynomial_div in progress and its arguments
    dPc,           \* the statement it is at
    dMem,          \* the coefficients of res, the scalar temporary t, and the
                   \* position of gr_poly_div_scalar's loop
    dStatus        \* status so far

varsInit == <<pc, initialized, tabCalls, tabWriters, lateWrite, racyUse>>

varsArith == <<aCall, aRet>>

varsCtx == <<ctxState, ctxVar, ctxBase, ctxLimit, heap, defaultMem, ctxCall>>

varsPred == <<pCall>>

varsCoerce == <<cCall, cRet>>

varsMixed == <<mCall, mPc, mTemp, mRet>>

varsAlias == <<dCall, dPc, dMem, dStatus>>

\* The variables SpecInit leaves alone.
notInit == <<varsArith, varsCtx, varsPred, varsCoerce, varsMixed, varsAlias>>

\* The variables SpecArith leaves alone.
notArith == <<varsInit, varsCtx, varsPred, varsCoerce, varsMixed, varsAlias>>

\* The variables SpecCtx leaves alone.
notCtx == <<varsInit, varsArith, varsPred, varsCoerce, varsMixed, varsAlias>>

\* The variables SpecPred leaves alone.
notPred == <<varsInit, varsArith, varsCtx, varsCoerce, varsMixed, varsAlias>>

\* The variables SpecCoerce leaves alone.
notCoerce == <<varsInit, varsArith, varsCtx, varsPred, varsMixed, varsAlias>>

\* The variables SpecMixed leaves alone.
notMixed == <<varsInit, varsArith, varsCtx, varsPred, varsCoerce, varsAlias>>

\* The variables SpecAlias leaves alone.
notAlias == <<varsInit, varsArith, varsCtx, varsPred, varsCoerce, varsMixed>>

vars == <<pc, initialized, tabCalls, tabWriters, lateWrite, racyUse, aCall, aRet,
          ctxState, ctxVar, ctxBase, ctxLimit, heap, defaultMem, ctxCall, pCall,
          cCall, cRet, mCall, mPc, mTemp, mRet, dCall, dPc, dMem, dStatus>>

(***************************************************************************)
(* Bounds                                                                  *)
(***************************************************************************)
NThreads == 3

\* The base ring of the arithmetic model is the integers mod Modulus.
Modulus == 3

\* Longest operand polynomial.
MaxLen == 2

\* Largest finite degree ceiling tried.
MaxLimit == 3

\* Polynomial-ring contexts in the life-cycle model.
NCtx == 2

\* Heap allocations the life-cycle model may make.
MaxAllocs == 2

\* Longest element of a polynomial ring over a polynomial ring.
MaxOuterLen == 1

Threads == 1..NThreads

(***************************************************************************)
(* SpecInit: gr_ctx_init_gr_poly, one step per shared-memory access.       *)
(***************************************************************************)
InitOnce ==
    /\ pc = [t \in Threads |-> "idle"]
    /\ initialized = 0
    /\ tabCalls = 0
    /\ tabWriters = {}
    /\ lateWrite = FALSE
    /\ racyUse = FALSE

\* Lines 770-778: the fields of the caller's own context, and the reference
\* to the shared table.
CtxSetFields(t) ==
    /\ pc[t] = "idle"
    /\ pc' = [pc EXCEPT ![t] = "check"]
    /\ UNCHANGED <<initialized, tabCalls, tabWriters, lateWrite, racyUse>>
    /\ UNCHANGED notInit

\* Line 780: the unguarded read of the flag.
CtxCheckFlag(t) ==
    /\ pc[t] = "check"
    /\ pc' = [pc EXCEPT ![t] = IF initialized = 0 THEN "build" ELSE "done"]
    /\ UNCHANGED <<initialized, tabCalls, tabWriters, lateWrite, racyUse>>
    /\ UNCHANGED notInit

\* Line 782: gr_method_tab_init starts writing _gr_poly_methods.
CtxTabInitBegin(t) ==
    /\ pc[t] = "build"
    /\ pc' = [pc EXCEPT ![t] = "building"]
    /\ tabCalls' = tabCalls + 1
    /\ tabWriters' = tabWriters \cup {t}
    /\ lateWrite' = (lateWrite \/ \E u \in Threads : pc[u] = "done")
    /\ UNCHANGED <<initialized, racyUse>>
    /\ UNCHANGED notInit

\* Line 782: gr_method_tab_init returns.
CtxTabInitEnd(t) ==
    /\ pc[t] = "building"
    /\ pc' = [pc EXCEPT ![t] = "setflag"]
    /\ tabWriters' = tabWriters \ {t}
    /\ UNCHANGED <<initialized, tabCalls, lateWrite, racyUse>>
    /\ UNCHANGED notInit

\* Line 783: the flag is set, and the constructor returns.
CtxSetFlag(t) ==
    /\ pc[t] = "setflag"
    /\ initialized' = 1
    /\ pc' = [pc EXCEPT ![t] = "done"]
    /\ UNCHANGED <<tabCalls, tabWriters, lateWrite, racyUse>>
    /\ UNCHANGED notInit

\* A thread whose constructor has returned dispatches through ctx->methods.
CtxUse(t) ==
    /\ pc[t] = "done"
    /\ racyUse' = (racyUse \/ tabWriters # {})
    /\ UNCHANGED <<pc, initialized, tabCalls, tabWriters, lateWrite>>
    /\ UNCHANGED notInit

NextInit ==
    \E t \in Threads :
        \/ CtxSetFields(t)
        \/ CtxCheckFlag(t)
        \/ CtxTabInitBegin(t)
        \/ CtxTabInitEnd(t)
        \/ CtxSetFlag(t)
        \/ CtxUse(t)

(***************************************************************************)
(* Status codes and truth values.  A status is the set of failure flags    *)
(* raised; composite operations join statuses with |, here set union.      *)
(***************************************************************************)
GR_SUCCESS == {}

GR_DOMAIN == {"GR_DOMAIN"}

GR_UNABLE == {"GR_UNABLE"}

Statuses == {GR_SUCCESS, GR_DOMAIN, GR_UNABLE}

Truths == {"T_TRUE", "T_FALSE", "T_UNKNOWN"}

\* degree_limit value that means "no ceiling"; only its being larger than any
\* length sum matters.
WORD_MAX == 2147483647

(***************************************************************************)
(* The base ring: integers mod Modulus whose zero test is not always       *)
(* decidable.  0 .. Modulus-1 are the residues in a form the ring          *)
(* recognises; ZeroQ is a representation of zero that the ring cannot      *)
(* prove to be zero (its zero test answers T_UNKNOWN).                     *)
(***************************************************************************)
ZeroQ == Modulus

Elem == 0..Modulus

Val(e) == e % Modulus

Exact(e) == e < Modulus

\* The representation of residue v; a zero computed from operands that are
\* not all recognised is itself not recognised.
Wrap(v, exact) == IF v # 0 THEN v ELSE IF exact THEN 0 ELSE ZeroQ

gr_is_zero(e) ==
    IF e = 0 THEN "T_TRUE" ELSE IF e = ZeroQ THEN "T_UNKNOWN" ELSE "T_FALSE"

gr_add(a, b) == Wrap((Val(a) + Val(b)) % Modulus, Exact(a) /\ Exact(b))

gr_neg(a) == Wrap((Modulus - Val(a)) % Modulus, Exact(a))

gr_sub(a, b) == gr_add(a, gr_neg(b))

gr_mul(a, b) ==
    IF a = 0 \/ b = 0 THEN 0
    ELSE Wrap((Val(a) * Val(b)) % Modulus, Exact(a) /\ Exact(b))

IsUnit(b) == Exact(b) /\ \E i \in 1..(Modulus - 1) : (i * b) % Modulus = 1

\* Division in the base ring: Unable when the divisor cannot be told from
\* zero, Domain when it is not invertible.
gr_div(a, b) ==
    IF b = ZeroQ THEN [status |-> GR_UNABLE, val |-> 0]
    ELSE IF ~IsUnit(b) THEN [status |-> GR_DOMAIN, val |-> 0]
    ELSE [status |-> GR_SUCCESS,
          val |-> gr_mul(a, CHOOSE i \in 1..(Modulus - 1) : (i * b) % Modulus = 1)]

(***************************************************************************)
(* Coefficient sequences (gr_poly): index 1 is the constant term.          *)
(***************************************************************************)
RECURSIVE _gr_poly_normalise(_)
\* Drops trailing coefficients that are provably zero, and only those.
_gr_poly_normalise(p) ==
    IF Len(p) > 0 /\ gr_is_zero(p[Len(p)]) = "T_TRUE"
    THEN _gr_poly_normalise(SubSeq(p, 1, Len(p) - 1))
    ELSE p

IsNormalised(p) == Len(p) = 0 \/ gr_is_zero(p[Len(p)]) # "T_TRUE"

RECURSIVE SeqsUpTo(_)
SeqsUpTo(n) ==
    IF n = 0 THEN {<<>>}
    ELSE LET S == SeqsUpTo(n - 1)
         IN S \cup {Append(q, e) : q \in {r \in S : Len(r) = n - 1}, e \in Elem}

\* The operands: every normalised polynomial of length at most MaxLen.
Polys == {p \in SeqsUpTo(MaxLen) : IsNormalised(p)}

\* T_TRUE when every coefficient is provably zero, T_FALSE when one is
\* provably nonzero, T_UNKNOWN otherwise.
gr_poly_is_zero(p) ==
    IF \E i \in 1..Len(p) : gr_is_zero(p[i]) = "T_FALSE" THEN "T_FALSE"
    ELSE IF \E i \in 1..Len(p) : gr_is_zero(p[i]) = "T_UNKNOWN" THEN "T_UNKNOWN"
    ELSE "T_TRUE"

RECURSIVE SumTo(_, _)
\* f[1] + ... + f[n] in the base ring.
SumTo(f, n) == IF n = 0 THEN 0 ELSE gr_add(SumTo(f, n - 1), f[n])

Coeff(p, i) == IF i >= 1 /\ i <= Len(p) THEN p[i] ELSE 0

\* Schoolbook product over the base ring, normalised.
gr_poly_mul(a, b) ==
    IF Len(a) = 0 \/ Len(b) = 0 THEN <<>>
    ELSE _gr_poly_normalise(
           [k \in 1..(Len(a) + Len(b) - 1) |->
               SumTo([i \in 1..Len(a) |-> gr_mul(a[i], Coeff(b, k + 1 - i))], Len(a))])

\* Every coefficient divided by the scalar c; the statuses are joined.
gr_poly_div_scalar(x, c) ==
    IF Len(x) = 0 THEN [status |-> GR_SUCCESS, res |-> <<>>]
    ELSE [status |-> UNION {gr_div(x[i], c).status : i \in 1..Len(x)},
          res |-> _gr_poly_normalise([i \in 1..Len(x) |-> gr_div(x[i], c).val])]

RECURSIVE LongDiv(_, _, _, _, _)
\* One step per quotient coefficient, from the top: q[k] = r[k+len(y)-1] / lc(y),
\* then r -= q[k] * y * X^(k-1).
LongDiv(r, y, k, q, st) ==
    IF k = 0 THEN [status |-> st, q |-> q, r |-> r]
    ELSE LET lb == Len(y)
             d == gr_div(r[k + lb - 1], y[lb])
             r2 == [i \in 1..Len(r) |->
                      IF i = k + lb - 1 THEN 0
                      ELSE IF i >= k /\ i < k + lb - 1
                           THEN gr_sub(r[i], gr_mul(d.val, y[i - k + 1]))
                           ELSE r[i]]
         IN LongDiv(r2, y, k - 1, [q EXCEPT ![k] = d.val], st \cup d.status)

\* Quotient and remainder of x by y: Domain for the zero polynomial, Unable
\* when the leading coefficient of y is not provably nonzero.
gr_poly_divrem(x, y) ==
    IF Len(y) = 0 THEN [status |-> GR_DOMAIN, q |-> <<>>, r |-> <<>>]
    ELSE IF gr_is_zero(y[Len(y)]) # "T_FALSE"
    THEN [status |-> GR_UNABLE, q |-> <<>>, r |-> <<>>]
    ELSE IF Len(x) < Len(y) THEN [status |-> GR_SUCCESS, q |-> <<>>, r |-> x]
    ELSE LET n == Len(x) - Len(y) + 1
             d == LongDiv(x, y, n, [i \in 1..n |-> 0], GR_SUCCESS)
         IN [status |-> d.status,
             q |-> _gr_poly_normalise(d.q),
             r |-> _gr_poly_normalise(SubSeq(d.r, 1, Len(y) - 1))]

(***************************************************************************)
(* SpecArith: polynomial_mul and polynomial_div.                           *)
(***************************************************************************)
\* polynomial_mul with the ceiling test off by one (>= for >).
polynomial_mul_offByOne(res0, poly1, poly2, degree_limit) ==
    IF /\ degree_limit # WORD_MAX
       /\ Len(poly1) # 0
       /\ Len(poly2) # 0
       /\ Len(poly1) + Len(poly2) >= degree_limit
    THEN [status |-> GR_UNABLE, res |-> res0]
    ELSE [status |-> GR_SUCCESS, res |-> gr_poly_mul(poly1, poly2)]

\* polynomial_mul (lines 483-494).  res0 is res on entry.
polynomial_mul(res0, poly1, poly2, degree_limit) ==
    IF /\ degree_limit # WORD_MAX
       /\ Len(poly1) # 0
       /\ Len(poly2) # 0
       /\ Len(poly1) + Len(poly2) > degree_limit
    THEN [status |-> GR_UNABLE, res |-> res0]
    ELSE [status |-> GR_SUCCESS, res |-> gr_poly_mul(poly1, poly2)]

\* polynomial_div with the two remainder verdicts exchanged.
polynomial_div_swapped(x, y, resIsY) ==
    IF Len(y) = 1 THEN gr_poly_div_scalar(x, y[1])
    ELSE LET d == gr_poly_divrem(x, y)
             is_zero == gr_poly_is_zero(d.r)
         IN [status |-> IF d.status = GR_SUCCESS
                        THEN IF is_zero = "T_UNKNOWN" THEN GR_DOMAIN
                             ELSE IF is_zero = "T_FALSE" THEN GR_UNABLE
                             ELSE GR_SUCCESS
                        ELSE d.status,
             res |-> d.q]

\* polynomial_div that returns the status of the long division without
\* looking at the remainder.
polynomial_div_noRemainderTest(x, y, resIsY) ==
    IF Len(y) = 1 THEN gr_poly_div_scalar(x, y[1])
    ELSE LET d == gr_poly_divrem(x, y)
         IN [status |-> d.status, res |-> d.q]

\* polynomial_div (lines 550-591).  resIsY: res and y are the same element.
polynomial_div(x, y, resIsY) ==
    IF Len(y) = 1
    THEN IF resIsY
         THEN LET t == y[1]
                  d == gr_poly_div_scalar(x, t)
              IN [status |-> GR_SUCCESS \cup d.status, res |-> d.res]
         ELSE gr_poly_div_scalar(x, y[1])
    ELSE LET d == gr_poly_divrem(x, y)
             is_zero == gr_poly_is_zero(d.r)
         IN [status |-> IF d.status = GR_SUCCESS
                        THEN IF is_zero = "T_UNKNOWN" THEN GR_UNABLE
                             ELSE IF is_zero = "T_FALSE" THEN GR_DOMAIN
                             ELSE GR_SUCCESS
                        ELSE d.status,
             res |-> d.q]

\* degree_limit as set on the context: none, or a ceiling.
Limits == {WORD_MAX} \cup 0..MaxLimit

\* Which operand res is the same element as.
Aliases == {"none", "x", "y"}

NoCall == [op |-> "none", x |-> <<>>, y |-> <<>>, res |-> <<>>,
           degree_limit |-> WORD_MAX, alias |-> "none"]

NoRet == [status |-> GR_SUCCESS, res |-> <<>>, x |-> <<>>, y |-> <<>>]

InitArith ==
    /\ aCall = NoCall
    /\ aRet = NoRet

\* res on entry: one of the operands when aliased, else a fresh element.
ResBefore(x, y, alias) == IF alias = "x" THEN x ELSE IF alias = "y" THEN y ELSE <<>>

\* The operands after the call: an operand that is res holds the result.
Returned(r, x, y, alias) ==
    [status |-> r.status, res |-> r.res,
     x |-> IF alias = "x" THEN r.res ELSE x,
     y |-> IF alias = "y" THEN r.res ELSE y]

\* Each behaviour is one call on freshly chosen operands.
Mul(x, y, limit, alias) ==
    /\ aCall.op = "none"
    /\ aCall' = [op |-> "mul", x |-> x, y |-> y, res |-> ResBefore(x, y, alias),
                 degree_limit |-> limit, alias |-> alias]
    /\ aRet' = Returned(polynomial_mul(ResBefore(x, y, alias), x, y, limit), x, y, alias)
    /\ UNCHANGED notArith

Div(x, y, limit, alias) ==
    /\ aCall.op = "none"
    /\ aCall' = [op |-> "div", x |-> x, y |-> y, res |-> ResBefore(x, y, alias),
                 degree_limit |-> limit, alias |-> alias]
    /\ aRet' = Returned(polynomial_div(x, y, alias = "y"), x, y, alias)
    /\ UNCHANGED notArith

NextArith ==
    /\ aCall.op = "none"
    /\ \E x \in Polys, y \in Polys, limit \in Limits, alias \in Aliases :
          \/ Mul(x, y, limit, alias)
          \/ Div(x, y, limit, alias)

(***************************************************************************)
(* SpecCtx: gr_ctx_init_gr_poly, _gr_gr_poly_ctx_set_gen_name and          *)
(* polynomial_ctx_clear on NCtx contexts, with the heap they use.          *)
(***************************************************************************)
Ctxs == 1..NCtx

\* Base rings a context may be built over.
BaseRings == {"ring_A", "ring_B"}

\* Names given to _gr_gr_poly_ctx_set_gen_name.
Names == {"y", "tt"}

\* The address of the static string "x" (line 23); allocations are 1, 2, ...
default_var == 0

Allocs == 1..MaxAllocs

NoAlloc == [state |-> "unused", str |-> "", owner |-> 0, frees |-> 0]

InitCtx ==
    /\ ctxState = [c \in Ctxs |-> "uninit"]
    /\ ctxVar = [c \in Ctxs |-> default_var]
    /\ ctxBase = [c \in Ctxs |-> "ring_A"]
    /\ ctxLimit = [c \in Ctxs |-> WORD_MAX]
    /\ heap = [b \in Allocs |-> NoAlloc]
    /\ defaultMem = [str |-> "x", frees |-> 0]
    /\ ctxCall = [op |-> "none", ctx |-> 0, s |-> "", base |-> "ring_A",
                  limit |-> WORD_MAX]

\* flint_free(p), on the heap and on the static string alike.
HeapFree(h, p) ==
    IF p = default_var THEN h
    ELSE [h EXCEPT ![p] = [@ EXCEPT !.state = "freed", !.frees = @ + 1]]

DefaultFree(d, p) == IF p = default_var THEN [d EXCEPT !.frees = @ + 1] ELSE d

\* memcpy(p, s, len + 1).
HeapWrite(h, p, s) == IF p = default_var THEN h ELSE [h EXCEPT ![p] = [@ EXCEPT !.str = s]]

DefaultWrite(d, p, s) == IF p = default_var THEN [d EXCEPT !.str = s] ELSE d

\* The call record: the operation and the fields of ctx before it.
CtxCallOf(op, c, s) ==
    [op |-> op, ctx |-> c, s |-> s, base |-> ctxBase[c], limit |-> ctxLimit[c]]

\* gr_ctx_init_gr_poly (lines 767-785) on a context not yet constructed.
gr_ctx_init_gr_poly(c, base_ring) ==
    /\ ctxState[c] = "uninit"
    /\ ctxState' = [ctxState EXCEPT ![c] = "live"]
    /\ ctxBase' = [ctxBase EXCEPT ![c] = base_ring]
    /\ ctxLimit' = [ctxLimit EXCEPT ![c] = WORD_MAX]
    /\ ctxVar' = [ctxVar EXCEPT ![c] = default_var]
    /\ ctxCall' = CtxCallOf("init", c, "")
    /\ UNCHANGED <<heap, defaultMem>>
    /\ UNCHANGED notCtx

\* The caller sets POLYNOMIAL_CTX(ctx)->degree_limit.
SetDegreeLimit(c, k) ==
    /\ ctxState[c] = "live"
    /\ ctxLimit[c] # k
    /\ ctxLimit' = [ctxLimit EXCEPT ![c] = k]
    /\ ctxCall' = CtxCallOf("set_degree_limit", c, "")
    /\ UNCHANGED <<ctxState, ctxVar, ctxBase, heap, defaultMem>>
    /\ UNCHANGED notCtx

\* The same without the test for the shared default.
ReallocArg_noDefaultTest(var) == [null |-> FALSE, p |-> var]

\* The pointer handed to flint_realloc by _gr_gr_poly_ctx_set_gen_name
\* (lines 43-44): NULL, written here as "no block", for the shared default.
ReallocArg(var) == IF var = default_var THEN [null |-> TRUE, p |-> default_var]
                   ELSE [null |-> FALSE, p |-> var]

\* _gr_gr_poly_ctx_set_gen_name (lines 38-49).  flint_realloc either keeps
\* the block (moved = FALSE) or returns block fresh and frees the old one;
\* for NULL it allocates block fresh.
_gr_gr_poly_ctx_set_gen_name(c, s, fresh, moved) ==
    /\ ctxState[c] = "live"
    /\ heap[fresh].state = "unused"
    /\ \A b \in Allocs : b < fresh => heap[b].state # "unused"
    /\ LET a == ReallocArg(ctxVar[c])
           new == IF a.null \/ moved THEN fresh ELSE a.p
           h1 == IF a.null THEN heap
                 ELSE IF moved THEN HeapFree(heap, a.p) ELSE heap
           h2 == IF new = fresh
                 THEN [h1 EXCEPT ![fresh] = [state |-> "live", str |-> "",
                                            owner |-> c, frees |-> 0]]
                 ELSE h1
           d1 == IF ~a.null /\ moved THEN DefaultFree(defaultMem, a.p) ELSE defaultMem
       IN /\ ctxVar' = [ctxVar EXCEPT ![c] = new]
          /\ heap' = HeapWrite(h2, new, s)
          /\ defaultMem' = DefaultWrite(d1, new, s)
    /\ ctxCall' = CtxCallOf("set_gen_name", c, s)
    /\ UNCHANGED <<ctxState, ctxBase, ctxLimit>>
    /\ UNCHANGED notCtx

\* polynomial_ctx_clear (lines 56-63).
polynomial_ctx_clear(c) ==
    /\ ctxState[c] = "live"
    /\ ctxState' = [ctxState EXCEPT ![c] = "cleared"]
    /\ IF ctxVar[c] # default_var
       THEN /\ heap' = HeapFree(heap, ctxVar[c])
            /\ defaultMem' = DefaultFree(defaultMem, ctxVar[c])
       ELSE UNCHANGED <<heap, defaultMem>>
    /\ ctxCall' = CtxCallOf("clear", c, "")
    /\ UNCHANGED <<ctxVar, ctxBase, ctxLimit>>
    /\ UNCHANGED notCtx

NextCtx ==
    \E c \in Ctxs :
        \/ \E b \in BaseRings : gr_ctx_init_gr_poly(c, b)
        \/ \E k \in {WORD_MAX, MaxLimit} : SetDegreeLimit(c, k)
        \/ \E s \in Names, fresh \in Allocs, moved \in BOOLEAN :
               _gr_gr_poly_ctx_set_gen_name(c, s, fresh, moved)
        \/ polynomial_ctx_clear(c)

(***************************************************************************)
(* SpecPred: the context predicates, dispatched through the method table.  *)
(***************************************************************************)
CtxPredicates ==
    {"GR_METHOD_CTX_IS_RING", "GR_METHOD_CTX_IS_COMMUTATIVE_RING",
     "GR_METHOD_CTX_IS_INTEGRAL_DOMAIN",
     "GR_METHOD_CTX_IS_UNIQUE_FACTORIZATION_DOMAIN", "GR_METHOD_CTX_IS_FIELD",
     "GR_METHOD_CTX_IS_RATIONAL_VECTOR_SPACE", "GR_METHOD_CTX_IS_REAL_VECTOR_SPACE",
     "GR_METHOD_CTX_IS_COMPLEX_VECTOR_SPACE", "GR_METHOD_CTX_IS_THREADSAFE"}

\* What a base ring answers to each predicate.
BaseAnswers == [CtxPredicates -> Truths]

\* Lines 65-111; elem is the answers of POLYNOMIAL_ELEM_CTX(ctx).
polynomial_ctx_is_ring(elem) == elem["GR_METHOD_CTX_IS_RING"]

\* polynomial_ctx_is_commutative_ring asking the base ring the wrong question.
polynomial_ctx_is_commutative_ring_asRing(elem) == elem["GR_METHOD_CTX_IS_RING"]

polynomial_ctx_is_commutative_ring(elem) == elem["GR_METHOD_CTX_IS_COMMUTATIVE_RING"]

polynomial_ctx_is_integral_domain(elem) == elem["GR_METHOD_CTX_IS_INTEGRAL_DOMAIN"]

polynomial_ctx_is_unique_factorization_domain(elem) ==
    elem["GR_METHOD_CTX_IS_UNIQUE_FACTORIZATION_DOMAIN"]

polynomial_ctx_is_rational_vector_space(elem) ==
    elem["GR_METHOD_CTX_IS_RATIONAL_VECTOR_SPACE"]

polynomial_ctx_is_real_vector_space(elem) == elem["GR_METHOD_CTX_IS_REAL_VECTOR_SPACE"]

polynomial_ctx_is_complex_vector_space(elem) ==
    elem["GR_METHOD_CTX_IS_COMPLEX_VECTOR_SPACE"]

polynomial_ctx_is_threadsafe(elem) == elem["GR_METHOD_CTX_IS_THREADSAFE"]

gr_generic_ctx_predicate_false(elem) == "T_FALSE"

\* The predicate entries of _gr_poly_methods_input (lines 686-694): the
\* function registered under each method, applied to the base ring.
_gr_poly_methods_input(method, elem) ==
    CASE method = "GR_METHOD_CTX_IS_RING" -> polynomial_ctx_is_ring(elem)
      [] method = "GR_METHOD_CTX_IS_COMMUTATIVE_RING" ->
            polynomial_ctx_is_commutative_ring(elem)
      [] method = "GR_METHOD_CTX_IS_INTEGRAL_DOMAIN" ->
            polynomial_ctx_is_integral_domain(elem)
      [] method = "GR_METHOD_CTX_IS_UNIQUE_FACTORIZATION_DOMAIN" ->
            polynomial_ctx_is_unique_factorization_domain(elem)
      [] method = "GR_METHOD_CTX_IS_FIELD" -> gr_generic_ctx_predicate_false(elem)
      [] method = "GR_METHOD_CTX_IS_RATIONAL_VECTOR_SPACE" ->
            polynomial_ctx_is_rational_vector_space(elem)
      [] method = "GR_METHOD_CTX_IS_REAL_VECTOR_SPACE" ->
            polynomial_ctx_is_real_vector_space(elem)
      [] method = "GR_METHOD_CTX_IS_COMPLEX_VECTOR_SPACE" ->
            polynomial_ctx_is_complex_vector_space(elem)
      [] method = "GR_METHOD_CTX_IS_THREADSAFE" -> polynomial_ctx_is_threadsafe(elem)

\* One predicate asked of a polynomial ring over a base ring answering elem.
AskPredicate(method, elem) ==
    /\ pCall.op = "none"
    /\ pCall' = [op |-> method, elem |-> elem,
                 answer |-> _gr_poly_methods_input(method, elem)]
    /\ UNCHANGED notPred

NextPred ==
    /\ pCall.op = "none"
    /\ \E method \in CtxPredicates, elem \in BaseAnswers : AskPredicate(method, elem)

(***************************************************************************)
(* SpecCoerce: polynomial_set_other, polynomial_i, polynomial_pi and       *)
(* polynomial_set_interval_mid_rad.                                        *)
(*                                                                         *)
(* The contexts: two scalar rings R and S, polynomial rings over them with *)
(* generator names x and y (R[x]' is a second context object for R[x]),    *)
(* polynomial rings over R[y] and R[x], and the three foreign kinds        *)
(* polynomial_set_other tests for.                                         *)
(***************************************************************************)
Scalar(w) == [which_ring |-> w, base |-> "", var |-> ""]

PolyRing(b, v) == [which_ring |-> "GR_CTX_GR_POLY", base |-> b, var |-> v]

CtxTable ==
    [c \in {"R", "S", "R[x]", "R[x]'", "R[y]", "S[x]", "fmpz_poly", "fmpq_poly",
            "vec(R)", "R[y][x]", "R[y][y]", "R[x][x]"} |->
        CASE c = "R" -> Scalar("GR_CTX_NMOD")
          [] c = "S" -> Scalar("GR_CTX_FMPZ")
          [] c = "R[x]" -> PolyRing("R", "x")
          [] c = "R[x]'" -> PolyRing("R", "x")
          [] c = "R[y]" -> PolyRing("R", "y")
          [] c = "S[x]" -> PolyRing("S", "x")
          [] c = "fmpz_poly" -> Scalar("GR_CTX_FMPZ_POLY")
          [] c = "fmpq_poly" -> Scalar("GR_CTX_FMPQ_POLY")
          [] c = "vec(R)" -> [which_ring |-> "GR_CTX_GR_VEC", base |-> "R", var |-> ""]
          [] c = "R[y][x]" -> PolyRing("R[y]", "x")
          [] c = "R[y][y]" -> PolyRing("R[y]", "y")
          [] c = "R[x][x]" -> PolyRing("R[x]", "x")]

AllCtx == DOMAIN CtxTable

\* POLYNOMIAL_ELEM_CTX(ctx), VECTOR_CTX(ctx)->base_ring
POLYNOMIAL_ELEM_CTX(c) == CtxTable[c].base

IsPolyCtx(c) == CtxTable[c].which_ring = "GR_CTX_GR_POLY"

IsScalarCtx(c) == CtxTable[c].which_ring \in {"GR_CTX_NMOD", "GR_CTX_FMPZ"}

\* The polynomial rings coerced into.
Targets == {"R[x]", "R[y][x]", "R[x][x]"}

\* Coefficients of the elements of a polynomial ring over a polynomial ring:
\* the constants of the inner ring.
InnerCoeffs == {p \in Polys : Len(p) <= 1}

RECURSIVE OuterSeqs(_)
OuterSeqs(n) ==
    IF n = 0 THEN {<<>>}
    ELSE LET S == OuterSeqs(n - 1)
         IN S \cup {Append(q, e) : q \in {r \in S : Len(r) = n - 1}, e \in InnerCoeffs}

\* The elements of each context that are given as foreign values.
Values(c) ==
    IF IsScalarCtx(c) THEN Elem
    ELSE IF CtxTable[c].which_ring = "GR_CTX_GR_VEC" THEN SeqsUpTo(MaxLen)
    ELSE IF IsPolyCtx(c) /\ IsPolyCtx(POLYNOMIAL_ELEM_CTX(c))
    THEN {p \in OuterSeqs(MaxOuterLen) : Len(p) = 0 \/ p[Len(p)] # <<>>}
    ELSE Polys

RECURSIVE gr_is_zero_in(_, _)
\* gr_is_zero(v, ctx): the scalar ring's test, or polynomial_is_zero
\* (gr_poly_is_zero over the base ring, lines 373-377).
gr_is_zero_in(c, v) ==
    IF ~IsPolyCtx(c) THEN gr_is_zero(v)
    ELSE LET e == POLYNOMIAL_ELEM_CTX(c)
         IN IF \E i \in 1..Len(v) : gr_is_zero_in(e, v[i]) = "T_FALSE" THEN "T_FALSE"
            ELSE IF \E i \in 1..Len(v) : gr_is_zero_in(e, v[i]) = "T_UNKNOWN"
                 THEN "T_UNKNOWN"
                 ELSE "T_TRUE"

RECURSIVE _gr_poly_normalise_in(_, _)
\* _gr_poly_normalise(p, e) for coefficients in context e.
_gr_poly_normalise_in(e, p) ==
    IF Len(p) > 0 /\ gr_is_zero_in(e, p[Len(p)]) = "T_TRUE"
    THEN _gr_poly_normalise_in(e, SubSeq(p, 1, Len(p) - 1))
    ELSE p

IsNormalisedIn(e, p) == Len(p) = 0 \/ gr_is_zero_in(e, p[Len(p)]) # "T_TRUE"

RECURSIVE Inject(_, _)
\* The scalar v as an element of context c.
Inject(c, v) ==
    IF ~IsPolyCtx(c) THEN v
    ELSE _gr_poly_normalise_in(POLYNOMIAL_ELEM_CTX(c),
                               <<Inject(POLYNOMIAL_ELEM_CTX(c), v)>>)

\* What a scalar ring's own operation produces on one call: a status, and
\* the value it leaves in the coefficient (any value when it fails).
Outcomes == [status : Statuses, val : Elem]

\* polynomial_set_other with the same-name polynomial rule tested before the
\* base-ring rule.
SetOtherRule_polyFirst(x_ctx, ctx) ==
    IF x_ctx = ctx THEN 1
    ELSE IF IsPolyCtx(x_ctx) /\ CtxTable[x_ctx].var = CtxTable[ctx].var THEN 3
    ELSE IF x_ctx = POLYNOMIAL_ELEM_CTX(ctx) THEN 2
    ELSE IF CtxTable[x_ctx].which_ring = "GR_CTX_FMPZ_POLY" THEN 4
    ELSE IF CtxTable[x_ctx].which_ring = "GR_CTX_FMPQ_POLY" THEN 4
    ELSE IF CtxTable[x_ctx].which_ring = "GR_CTX_GR_VEC" THEN 5
    ELSE 6

\* The if-else chain of polynomial_set_other (lines 192-220): the branch
\* taken, numbered 1..6 (both bulk conversions are 4).
SetOtherRule(x_ctx, ctx) ==
    IF x_ctx = ctx THEN 1
    ELSE IF x_ctx = POLYNOMIAL_ELEM_CTX(ctx) THEN 2
    ELSE IF IsPolyCtx(x_ctx) /\ CtxTable[x_ctx].var = CtxTable[ctx].var THEN 3
    ELSE IF CtxTable[x_ctx].which_ring = "GR_CTX_FMPZ_POLY" THEN 4
    ELSE IF CtxTable[x_ctx].which_ring = "GR_CTX_FMPQ_POLY" THEN 4
    ELSE IF CtxTable[x_ctx].which_ring = "GR_CTX_GR_VEC" THEN 5
    ELSE 6

\* The fallback that keeps length 1 when the coercion failed.
SetOtherFallback_noElse(c, e) ==
    [rule |-> 6, status |-> c.status, res |-> _gr_poly_normalise_in(e, <<c.val>>)]

\* The fallback branch (lines 222-233); c is what gr_set_other returned and
\* left in res->coeffs, e is POLYNOMIAL_ELEM_CTX(ctx).
SetOtherFallback(c, e) ==
    [rule |-> 6, status |-> c.status,
     res |-> IF c.status = GR_SUCCESS THEN _gr_poly_normalise_in(e, <<c.val>>)
             ELSE <<>>]

\* gr_set_other into a scalar ring: a copy from the ring itself, o from
\* another scalar ring; values of polynomial and vector rings are refused.
scalar_set_other(x, x_ctx, ctx, o) ==
    IF x_ctx = ctx THEN [status |-> GR_SUCCESS, val |-> x]
    ELSE IF IsScalarCtx(x_ctx) THEN o
    ELSE [status |-> IF o.status = GR_SUCCESS THEN GR_UNABLE ELSE o.status,
          val |-> o.val]

RECURSIVE gr_set_other(_, _, _, _)
RECURSIVE gr_poly_set_gr_poly_other(_, _, _, _)
RECURSIVE polynomial_set_other(_, _, _, _)

\* gr_set_other(res, x, x_ctx, ctx): dispatch on the target; a polynomial
\* ring's entry is polynomial_set_other (line 722).
gr_set_other(x, x_ctx, ctx, o) ==
    IF IsPolyCtx(ctx)
    THEN LET r == polynomial_set_other(x, x_ctx, ctx, o)
         IN [status |-> r.status, val |-> r.res]
    ELSE scalar_set_other(x, x_ctx, ctx, o)

\* Coefficient-wise coercion from x_elem into elem; nothing on failure.
gr_poly_set_gr_poly_other(x, x_elem, elem, o) ==
    IF Len(x) = 0 THEN [status |-> GR_SUCCESS, res |-> <<>>]
    ELSE LET cs == [i \in 1..Len(x) |-> gr_set_other(x[i], x_elem, elem, o)]
             st == UNION {cs[i].status : i \in 1..Len(x)}
         IN [status |-> st,
             res |-> IF st = GR_SUCCESS
                     THEN _gr_poly_normalise_in(elem, [i \in 1..Len(x) |-> cs[i].val])
                     ELSE <<>>]

\* polynomial_set_other (lines 189-235).  o is what a scalar ring's coercion
\* from another scalar ring, or a bulk conversion, produces in this call.
polynomial_set_other(x, x_ctx, ctx, o) ==
    LET rule == SetOtherRule(x_ctx, ctx)
        e == POLYNOMIAL_ELEM_CTX(ctx)
    IN CASE rule = 1 -> [rule |-> 1, status |-> GR_SUCCESS, res |-> x]
         [] rule = 2 -> [rule |-> 2, status |-> GR_SUCCESS,
                         res |-> _gr_poly_normalise_in(e, <<x>>)]
         [] rule = 3 ->
              LET r == gr_poly_set_gr_poly_other(x, POLYNOMIAL_ELEM_CTX(x_ctx), e, o)
              IN [rule |-> 3, status |-> r.status, res |-> r.res]
         [] rule = 4 ->
              [rule |-> 4, status |-> o.status,
               res |-> IF o.status = GR_SUCCESS
                       THEN _gr_poly_normalise_in(e, <<Inject(e, o.val)>>)
                       ELSE <<>>]
         [] rule = 5 ->
              LET r == gr_poly_set_gr_poly_other(x, POLYNOMIAL_ELEM_CTX(x_ctx), e, o)
              IN [rule |-> 5, status |-> r.status, res |-> r.res]
         [] rule = 6 -> SetOtherFallback(gr_set_other(x, x_ctx, e, o), e)

\* polynomial_i without the final _gr_poly_normalise.
polynomial_i_noNormalise(o) == [status |-> o.status, res |-> <<o.val>>]

\* polynomial_i (lines 318-327) over R; o is what gr_i returns and leaves in
\* res->coeffs.
polynomial_i(o) == [status |-> o.status, res |-> _gr_poly_normalise(<<o.val>>)]

\* polynomial_pi (lines 329-338) over R; o is what gr_pi returns and leaves.
polynomial_pi(o) == [status |-> o.status, res |-> _gr_poly_normalise(<<o.val>>)]

RECURSIVE polynomial_set_interval_mid_rad(_, _, _, _, _)
\* polynomial_set_interval_mid_rad (lines 237-298) over R.  rlen is
\* r->length; w[i] is what gr_set_interval_mid_rad leaves in coefficient i,
\* st the join of the statuses of those calls; resIsR: res and r are the
\* same element.
polynomial_set_interval_mid_rad(m, rlen, w, st, resIsR) ==
    IF rlen = 0 THEN [status |-> GR_SUCCESS, res |-> m]
    ELSE IF resIsR THEN polynomial_set_interval_mid_rad(m, rlen, w, st, FALSE)
    ELSE LET len == IF Len(m) > rlen THEN Len(m) ELSE rlen
         IN [status |-> st,
             res |-> _gr_poly_normalise(
                        [i \in 1..len |-> IF i <= rlen THEN w[i] ELSE m[i]])]

NoCoerce == [op |-> "none"]

InitCoerce ==
    /\ cCall = NoCoerce
    /\ cRet = NoCoerce

SetOther(ctx, x_ctx, x, o) ==
    /\ cCall.op = "none"
    /\ cCall' = [op |-> "set_other", ctx |-> ctx, x_ctx |-> x_ctx, x |-> x, o |-> o]
    /\ cRet' = polynomial_set_other(x, x_ctx, ctx, o)
    /\ UNCHANGED notCoerce

ConstI(o) ==
    /\ cCall.op = "none"
    /\ cCall' = [op |-> "i", ctx |-> "R[x]", o |-> o]
    /\ cRet' = polynomial_i(o)
    /\ UNCHANGED notCoerce

ConstPi(o) ==
    /\ cCall.op = "none"
    /\ cCall' = [op |-> "pi", ctx |-> "R[x]", o |-> o]
    /\ cRet' = polynomial_pi(o)
    /\ UNCHANGED notCoerce

SetIntervalMidRad(m, rlen, w, st, resIsR) ==
    /\ cCall.op = "none"
    /\ cCall' = [op |-> "set_interval_mid_rad", ctx |-> "R[x]", m |-> m, rlen |-> rlen,
                 w |-> w, st |-> st, resIsR |-> resIsR]
    /\ cRet' = polynomial_set_interval_mid_rad(m, rlen, w, st, resIsR)
    /\ UNCHANGED notCoerce

NextCoerce ==
    /\ cCall.op = "none"
    /\ \/ \E ctx \in Targets, x_ctx \in AllCtx, o \in Outcomes :
             \E x \in Values(x_ctx) : SetOther(ctx, x_ctx, x, o)
       \/ \E o \in Outcomes : ConstI(o)
       \/ \E o \in Outcomes : ConstPi(o)
       \/ \E m \in Polys, rlen \in 0..MaxLen, st \in Statuses, resIsR \in BOOLEAN :
             \E w \in [1..rlen -> Elem] : SetIntervalMidRad(m, rlen, w, st, resIsR)

(***************************************************************************)
(* SpecMixed: polynomial_mul_other and polynomial_other_mul in the ring    *)
(* R[x], statement by statement, with the temporary they create.           *)
(***************************************************************************)
\* gr_poly_mul_scalar: every coefficient times the scalar c, normalised.
gr_poly_mul_scalar(poly, c) ==
    [status |-> GR_SUCCESS,
     res |-> _gr_poly_normalise([i \in 1..Len(poly) |-> gr_mul(poly[i], c)])]

\* gr_poly_scalar_mul: the scalar c times every coefficient, normalised.
gr_poly_scalar_mul(c, poly) ==
    [status |-> GR_SUCCESS,
     res |-> _gr_poly_normalise([i \in 1..Len(poly) |-> gr_mul(c, poly[i])])]

\* The branch polynomial_mul_other / polynomial_other_mul take (lines
\* 499-507, 526-534).
MixedBranch(x_ctx, ctx) ==
    IF x_ctx = POLYNOMIAL_ELEM_CTX(ctx) THEN "scalar"
    ELSE IF /\ IsPolyCtx(x_ctx)
            /\ POLYNOMIAL_ELEM_CTX(x_ctx) = POLYNOMIAL_ELEM_CTX(ctx)
            /\ CtxTable[x_ctx].var = CtxTable[ctx].var
    THEN "same_ring"
    ELSE "temp"

\* The temporary branch returning at once when polynomial_set_other failed.
AfterSetOther_earlyReturn(status) == IF status = GR_SUCCESS THEN "mul" ELSE "done"

\* Where the temporary branch goes after polynomial_set_other (lines
\* 515-516, 542-543).
AfterSetOther(status) == IF status = GR_SUCCESS THEN "mul" ELSE "clear"

\* Polynomial operands with coefficients 0, 1 and the undecided zero.
SmallPolys == {p \in Polys : \A i \in 1..Len(p) : p[i] \in {0, 1, ZeroQ}}

\* Foreign operands: scalars, and elements of length at most 1.
MixedValues(x_ctx) ==
    {v \in Values(x_ctx) : IsScalarCtx(x_ctx) \/ Len(v) <= 1}

\* The polynomial operands tried with a foreign context: all of them with a
\* scalar of the base ring, the small ones otherwise.
Operands(x_ctx, ctx) == IF x_ctx = POLYNOMIAL_ELEM_CTX(ctx) THEN Polys ELSE SmallPolys

\* What the base rings' coercions produce during a call; it matters only on
\* the temporary branch.
MixedOutcomes(x_ctx, ctx) ==
    IF MixedBranch(x_ctx, ctx) = "temp" THEN Outcomes
    ELSE {[status |-> GR_SUCCESS, val |-> 0]}

NoTemp == [live |-> FALSE, val |-> <<>>, inits |-> 0, clears |-> 0]

NoMixedRet == [status |-> GR_SUCCESS, res |-> <<>>, muls |-> 0]

InitMixed ==
    /\ mCall = [op |-> "none"]
    /\ mPc = "idle"
    /\ mTemp = NoTemp
    /\ mRet = NoMixedRet

\* Entry of polynomial_mul_other (op = "mul_other") or polynomial_other_mul
\* (op = "other_mul"); resIsPoly: res is the element poly.
MixedCall(op, poly, x, x_ctx, limit, resIsPoly, o) ==
    /\ mPc = "idle"
    /\ mCall' = [op |-> op, ctx |-> "R[x]", poly |-> poly, x |-> x, x_ctx |-> x_ctx,
                 degree_limit |-> limit, resIsPoly |-> resIsPoly, o |-> o,
                 res |-> IF resIsPoly THEN poly ELSE <<>>]
    /\ mPc' = "entry"
    /\ mRet' = [status |-> GR_SUCCESS, res |-> IF resIsPoly THEN poly ELSE <<>>,
                muls |-> 0]
    /\ UNCHANGED <<mTemp, notMixed>>

\* Lines 499-502, 526-529.
MixedScalar ==
    /\ mPc = "entry"
    /\ MixedBranch(mCall.x_ctx, mCall.ctx) = "scalar"
    /\ LET r == IF mCall.op = "mul_other" THEN gr_poly_mul_scalar(mCall.poly, mCall.x)
                ELSE gr_poly_scalar_mul(mCall.x, mCall.poly)
       IN mRet' = [mRet EXCEPT !.status = r.status, !.res = r.res]
    /\ mPc' = "done"
    /\ UNCHANGED <<mCall, mTemp, notMixed>>

\* Lines 503-508, 530-535.
MixedSameRing ==
    /\ mPc = "entry"
    /\ MixedBranch(mCall.x_ctx, mCall.ctx) = "same_ring"
    /\ LET r == IF mCall.op = "mul_other"
                THEN polynomial_mul(mRet.res, mCall.poly, mCall.x, mCall.degree_limit)
                ELSE polynomial_mul(mRet.res, mCall.x, mCall.poly, mCall.degree_limit)
       IN mRet' = [status |-> r.status, res |-> r.res, muls |-> mRet.muls + 1]
    /\ mPc' = "done"
    /\ UNCHANGED <<mCall, mTemp, notMixed>>

\* polynomial_init(t, ctx), lines 511-514, 538-541.
MixedTempInit ==
    /\ mPc = "entry"
    /\ MixedBranch(mCall.x_ctx, mCall.ctx) = "temp"
    /\ mTemp' = [live |-> TRUE, val |-> <<>>, inits |-> mTemp.inits + 1,
                 clears |-> mTemp.clears]
    /\ mPc' = "set_other"
    /\ UNCHANGED <<mCall, mRet, notMixed>>

\* status = polynomial_set_other(t, x, x_ctx, ctx), lines 515, 542.
MixedSetOther ==
    /\ mPc = "set_other"
    /\ LET r == polynomial_set_other(mCall.x, mCall.x_ctx, mCall.ctx, mCall.o)
       IN /\ mTemp' = [mTemp EXCEPT !.val = r.res]
          /\ mRet' = [mRet EXCEPT !.status = r.status]
          /\ mPc' = AfterSetOther(r.status)
    /\ UNCHANGED <<mCall, notMixed>>

\* status = polynomial_mul(res, poly, t, ctx), lines 516-517, 543-544.
MixedMul ==
    /\ mPc = "mul"
    /\ LET r == IF mCall.op = "mul_other"
                THEN polynomial_mul(mRet.res, mCall.poly, mTemp.val, mCall.degree_limit)
                ELSE polynomial_mul(mRet.res, mTemp.val, mCall.poly, mCall.degree_limit)
       IN mRet' = [status |-> r.status, res |-> r.res, muls |-> mRet.muls + 1]
    /\ mPc' = "clear"
    /\ UNCHANGED <<mCall, mTemp, notMixed>>

\* polynomial_clear(t, ctx); return status, lines 518-519, 545-546.
MixedTempClear ==
    /\ mPc = "clear"
    /\ mTemp' = [mTemp EXCEPT !.live = FALSE, !.clears = mTemp.clears + 1]
    /\ mPc' = "done"
    /\ UNCHANGED <<mCall, mRet, notMixed>>

NextMixed ==
    \/ /\ mPc = "idle"
       /\ \E op \in {"mul_other", "other_mul"}, x_ctx \in AllCtx,
             limit \in {WORD_MAX} \cup 0..MaxLimit, resIsPoly \in BOOLEAN :
             \E poly \in Operands(x_ctx, "R[x]"), x \in MixedValues(x_ctx),
                o \in MixedOutcomes(x_ctx, "R[x]") :
                MixedCall(op, poly, x, x_ctx, limit, resIsPoly, o)
    \/ MixedScalar
    \/ MixedSameRing
    \/ MixedTempInit
    \/ MixedSetOther
    \/ MixedMul
    \/ MixedTempClear

(***************************************************************************)
(* SpecAlias: the branch y->length == 1 of polynomial_div, statement by    *)
(* statement on the coefficients in memory.  gr_poly_div_scalar(res, x, c) *)
(* writes res one coefficient at a time and reads the scalar through the   *)
(* pointer c each time.  When res is y, y->coeffs is res's own buffer.     *)
(***************************************************************************)
\* The scalar passed to gr_poly_div_scalar when res is y, without the
\* snapshot: y->coeffs itself.
ScalarArg_noSnapshot(resIsY) == "y->coeffs"

\* The scalar polynomial_div passes to gr_poly_div_scalar (lines 555-568).
ScalarArg(resIsY) == IF resIsY THEN "t" ELSE "y->coeffs"

\* The value behind the pointer c now.
Deref(c) ==
    IF c = "t" THEN dMem.t
    ELSE IF dCall.resIsY THEN dMem.res[1] ELSE dCall.y[1]

\* The buffer b with coefficient i set to v, grown with zeros as needed.
Store(b, i, v) ==
    [j \in 1..(IF Len(b) > i THEN Len(b) ELSE i) |->
        IF j = i THEN v ELSE IF j <= Len(b) THEN b[j] ELSE 0]

\* The divisors of the scalar path.
Scalars == {p \in Polys : Len(p) = 1}

NoMem == [res |-> <<>>, t |-> 0, live |-> FALSE, inits |-> 0, clears |-> 0, i |-> 1]

InitAlias ==
    /\ dCall = [op |-> "none"]
    /\ dPc = "idle"
    /\ dMem = NoMem
    /\ dStatus = GR_SUCCESS

\* Entry of polynomial_div with y->length == 1 (lines 550-553).
DivCall(x, y, resIsY) ==
    /\ dPc = "idle"
    /\ dCall' = [op |-> "div", x |-> x, y |-> y, resIsY |-> resIsY,
                 c |-> ScalarArg(resIsY)]
    /\ dMem' = [NoMem EXCEPT !.res = IF resIsY THEN y ELSE <<>>]
    /\ dStatus' = GR_SUCCESS
    /\ dPc' = IF resIsY THEN "tmp_init" ELSE "div_scalar"
    /\ UNCHANGED notAlias

\* GR_TMP_INIT(t, ...), lines 557-559.
DivTmpInit ==
    /\ dPc = "tmp_init"
    /\ dMem' = [dMem EXCEPT !.live = TRUE, !.inits = dMem.inits + 1]
    /\ dPc' = "snapshot"
    /\ UNCHANGED <<dCall, dStatus, notAlias>>

\* status |= gr_set(t, y->coeffs, ...), line 560.
DivSnapshot ==
    /\ dPc = "snapshot"
    /\ dMem' = [dMem EXCEPT !.t = dMem.res[1]]
    /\ dPc' = "div_scalar"
    /\ UNCHANGED <<dCall, dStatus, notAlias>>

\* One coefficient of gr_poly_div_scalar(res, x, c) (lines 561, 566).
DivScalarCoeff ==
    /\ dPc = "div_scalar"
    /\ dMem.i <= Len(dCall.x)
    /\ LET d == gr_div(dCall.x[dMem.i], Deref(dCall.c))
       IN /\ dMem' = [dMem EXCEPT !.res = Store(dMem.res, dMem.i, d.val),
                                  !.i = dMem.i + 1]
          /\ dStatus' = dStatus \cup d.status
    /\ UNCHANGED <<dCall, dPc, notAlias>>

\* The end of gr_poly_div_scalar: length of x, normalised.
DivScalarEnd ==
    /\ dPc = "div_scalar"
    /\ dMem.i > Len(dCall.x)
    /\ dMem' = [dMem EXCEPT !.res = _gr_poly_normalise(SubSeq(dMem.res, 1, Len(dCall.x)))]
    /\ dPc' = IF dCall.resIsY THEN "tmp_clear" ELSE "done"
    /\ UNCHANGED <<dCall, dStatus, notAlias>>

\* GR_TMP_CLEAR(t, ...); return status, lines 562-563.
DivTmpClear ==
    /\ dPc = "tmp_clear"
    /\ dMem' = [dMem EXCEPT !.live = FALSE, !.clears = dMem.clears + 1]
    /\ dPc' = "done"
    /\ UNCHANGED <<dCall, dStatus, notAlias>>

NextAlias ==
    \/ /\ dPc = "idle"
       /\ \E x \in Polys, y \in Scalars, resIsY \in BOOLEAN : DivCall(x, y, resIsY)
    \/ DivTmpInit
    \/ DivSnapshot
    \/ DivScalarCoeff
    \/ DivScalarEnd
    \/ DivTmpClear

(***************************************************************************)
(* Specifications.                                                         *)
(***************************************************************************)
Init ==
    /\ InitOnce
    /\ InitArith
    /\ InitCtx
    /\ pCall = [op |-> "none"]
    /\ InitCoerce
    /\ InitMixed
    /\ InitAlias

SpecInit == Init /\ [][NextInit]_vars

SpecArith == Init /\ [][NextArith]_vars

SpecCtx == Init /\ [][NextCtx]_vars

SpecPred == Init /\ [][NextPred]_vars

SpecCoerce == Init /\ [][NextCoerce]_vars

SpecMixed == Init /\ [][NextMixed]_vars

SpecAlias == Init /\ [][NextAlias]_vars

(***************************************************************************)
(* Claims.                                                                 *)
(***************************************************************************)
\* C1: under every interleaving of concurrent first calls the method table is
\* built exactly once, is never written after a constructor has returned, and
\* no constructed context dispatches while the table is being written.
C1_BuiltOnce == tabCalls <= 1 /\ ~lateWrite /\ ~racyUse

\* The ceiling refuses the product of a and b under degree_limit k.
Refused(a, b, k) == k # WORD_MAX /\ Len(a) # 0 /\ Len(b) # 0 /\ Len(a) + Len(b) > k

\* C2: with a ceiling k set, polynomial_mul on two nonzero operands with
\* len(a)+len(b) > k returns Unable and leaves a, b and res as they were; in
\* every other case the ceiling never causes Unable and the result is that of
\* the base multiplication.
C2_DegreeCeiling ==
    aCall.op = "mul" =>
        IF Refused(aCall.x, aCall.y, aCall.degree_limit)
        THEN /\ aRet.status = GR_UNABLE
             /\ aRet.res = aCall.res
             /\ aRet.x = aCall.x
             /\ aRet.y = aCall.y
        ELSE /\ aRet.status # GR_UNABLE
             /\ aRet.res = gr_poly_mul(aCall.x, aCall.y)

\* C2 witness: a refused product whose res is the nonzero operand a.
C2_Witness ==
    /\ aCall.op = "mul"
    /\ aCall.alias = "x"
    /\ Refused(aCall.x, aCall.y, aCall.degree_limit)
    /\ aRet.status = GR_UNABLE
    /\ aRet.x = aCall.x

\* C3: for len(y) # 1 the status of polynomial_div is Success exactly when the
\* long division succeeded and the remainder is provably zero, Domain when it
\* is provably nonzero, Unable when that is undecidable; a failed long
\* division's status is returned unchanged.
C3_DivStatus ==
    (aCall.op = "div" /\ Len(aCall.y) # 1) =>
        LET d == gr_poly_divrem(aCall.x, aCall.y)
            z == gr_poly_is_zero(d.r)
        IN IF d.status # GR_SUCCESS THEN aRet.status = d.status
           ELSE /\ (aRet.status = GR_SUCCESS) <=> (z = "T_TRUE")
                /\ (aRet.status = GR_DOMAIN) <=> (z = "T_FALSE")
                /\ (aRet.status = GR_UNABLE) <=> (z = "T_UNKNOWN")

\* C3 witness: a long division that succeeds with a remainder whose zero test
\* is undecidable, reported as Unable.
C3_Witness ==
    /\ aCall.op = "div"
    /\ Len(aCall.y) = 2
    /\ gr_poly_divrem(aCall.x, aCall.y).status = GR_SUCCESS
    /\ gr_poly_is_zero(gr_poly_divrem(aCall.x, aCall.y).r) = "T_UNKNOWN"
    /\ aRet.status = GR_UNABLE

RECURSIVE MathPoly(_)
\* The polynomial a coefficient sequence denotes: its residues, without the
\* trailing zero residues.
MathPoly(p) ==
    IF Len(p) > 0 /\ Val(p[Len(p)]) = 0 THEN MathPoly(SubSeq(p, 1, Len(p) - 1))
    ELSE [i \in 1..Len(p) |-> Val(p[i])]

\* The ring's own product q*y, under the context's degree_limit.
MulBack == polynomial_mul(<<>>, aRet.res, aCall.y, aCall.degree_limit)

C8_NameOwnership ==
    /\ defaultMem = [str |-> "x", frees |-> 0]
    /\ \A b \in Allocs :
          /\ heap[b].frees <= 1
          /\ heap[b].state = "freed" => heap[b].frees = 1
          /\ heap[b].state = "live" =>
                ctxState[heap[b].owner] = "live" /\ ctxVar[heap[b].owner] = b
    /\ \A c \in Ctxs :
          (ctxState[c] = "live" /\ ctxVar[c] # default_var) =>
              heap[ctxVar[c]].state = "live" /\ heap[ctxVar[c]].owner = c
    /\ ctxCall.op = "set_gen_name" =>
          /\ ctxVar[ctxCall.ctx] # default_var
          /\ heap[ctxVar[ctxCall.ctx]].str = ctxCall.s
    /\ ctxCall.op \in {"set_gen_name", "clear"} =>
          /\ ctxBase[ctxCall.ctx] = ctxCall.base
          /\ ctxLimit[ctxCall.ctx] = ctxCall.limit

\* C8 witness: a context with a ceiling set, cleared after two sets of which
\* the second moved the name, while another context still has the default.
C8_Witness ==
    /\ ctxCall.op = "clear"
    /\ ctxLimit[ctxCall.ctx] # WORD_MAX
    /\ Cardinality({b \in Allocs : heap[b].state = "freed"
                                   /\ heap[b].owner = ctxCall.ctx}) = 2
    /\ \E c \in Ctxs : ctxState[c] = "live" /\ ctxVar[c] = default_var

\* C9: every context predicate of the polynomial ring answers what the base
\* ring answers to the same predicate, except is-field, which answers false
\* whatever the base ring says.
C9_Predicates ==
    pCall.op # "none" =>
        pCall.answer = IF pCall.op = "GR_METHOD_CTX_IS_FIELD" THEN "T_FALSE"
                       ELSE pCall.elem[pCall.op]

\* C9 witness: is-commutative-ring forwarded as unknown over a base ring that
\* is a ring and a field.
C9_Witness ==
    /\ pCall.op = "GR_METHOD_CTX_IS_COMMUTATIVE_RING"
    /\ pCall.answer = "T_UNKNOWN"
    /\ pCall.elem["GR_METHOD_CTX_IS_RING"] = "T_TRUE"
    /\ pCall.elem["GR_METHOD_CTX_IS_FIELD"] = "T_TRUE"

(***************************************************************************)
(* Claims about SpecCoerce.                                                *)
(***************************************************************************)
\* The conversion rules in the order the contract lists them.
RuleMatches(n, x_ctx, ctx) ==
    CASE n = 1 -> x_ctx = ctx
      [] n = 2 -> x_ctx = CtxTable[ctx].base
      [] n = 3 -> /\ CtxTable[x_ctx].which_ring = "GR_CTX_GR_POLY"
                  /\ CtxTable[x_ctx].var = CtxTable[ctx].var
      [] n = 4 -> CtxTable[x_ctx].which_ring \in {"GR_CTX_FMPZ_POLY", "GR_CTX_FMPQ_POLY"}
      [] n = 5 -> CtxTable[x_ctx].which_ring = "GR_CTX_GR_VEC"
      [] n = 6 -> TRUE

FirstMatch(x_ctx, ctx) ==
    CHOOSE n \in 1..6 : /\ RuleMatches(n, x_ctx, ctx)
                        /\ \A k \in 1..(n - 1) : ~RuleMatches(k, x_ctx, ctx)

\* C5: polynomial_set_other applies the first rule that matches, in the
\* order copy, base-ring constant, same-name polynomial ring, bulk
\* conversion, vector, scalar fallback, and returns that rule's outcome
\* whatever its status.
C5_RuleOrder ==
    cCall.op = "set_other" => cRet.rule = FirstMatch(cCall.x_ctx, cCall.ctx)

\* A value of R[x] coerced into R[x][x]: the base-ring rule and the same-name
\* rule both match, and the base-ring rule is the one taken.
C5_Witness ==
    /\ cCall.op = "set_other"
    /\ cCall.ctx = "R[x][x]"
    /\ cCall.x_ctx = "R[x]"
    /\ RuleMatches(3, cCall.x_ctx, cCall.ctx)
    /\ cRet.rule = 2

\* Two polynomial rings over the same base ring with different names.
NameMismatch(x_ctx, ctx) ==
    /\ CtxTable[x_ctx].which_ring = "GR_CTX_GR_POLY"
    /\ CtxTable[ctx].which_ring = "GR_CTX_GR_POLY"
    /\ CtxTable[x_ctx].base = CtxTable[ctx].base
    /\ CtxTable[x_ctx].var # CtxTable[ctx].var

\* C6: coercing between two polynomial rings over the same base ring whose
\* generator names differ reports Domain-error or Unable, never Success.
C6_NameMismatch ==
    (cCall.op = "set_other" /\ NameMismatch(cCall.x_ctx, cCall.ctx))
        => cRet.status # GR_SUCCESS

\* C7: in the scalar fallback the status is that of coercing the foreign
\* value into the base ring; on Success the result is the constant of that
\* scalar, of length 1, or 0 when the scalar is provably zero; otherwise the
\* result has length 0.
C7_Fallback ==
    (cCall.op = "set_other" /\ FirstMatch(cCall.x_ctx, cCall.ctx) = 6) =>
        LET e == CtxTable[cCall.ctx].base
            c == gr_set_other(cCall.x, cCall.x_ctx, e, cCall.o)
        IN /\ cRet.status = c.status
           /\ c.status = GR_SUCCESS =>
                 cRet.res = IF gr_is_zero_in(e, c.val) = "T_TRUE" THEN <<>>
                            ELSE <<c.val>>
           /\ c.status # GR_SUCCESS => cRet.res = <<>>

\* A scalar of S that R refuses with Domain-error while leaving a nonzero
\* value in the coefficient: the fallback returns the zero polynomial.
C7_Witness ==
    /\ cCall.op = "set_other"
    /\ cCall.ctx = "R[x]"
    /\ cCall.x_ctx = "S"
    /\ cCall.o.status = GR_DOMAIN
    /\ cCall.o.val = 1
    /\ cRet.rule = 6
    /\ cRet.status = GR_DOMAIN
    /\ cRet.res = <<>>

\* The coefficients the operation wrote, before any normalisation.
Written ==
    CASE cCall.op \in {"i", "pi"} -> <<cCall.o.val>>
      [] cCall.op = "set_interval_mid_rad" ->
           IF cCall.rlen = 0 THEN cCall.m
           ELSE [i \in 1..(IF Len(cCall.m) > cCall.rlen THEN Len(cCall.m) ELSE cCall.rlen)
                    |-> IF i <= cCall.rlen THEN cCall.w[i] ELSE cCall.m[i]]

\* C10: every result is normalised, its length is 0 or its top coefficient
\* is not provably zero, also when the coefficient operation failed; and a
\* written top coefficient that is not provably zero is kept.
C10_Normalised ==
    /\ cCall.op # "none" => IsNormalisedIn(CtxTable[cCall.ctx].base, cRet.res)
    /\ (/\ cCall.op \in {"i", "pi", "set_interval_mid_rad"}
        /\ Len(Written) > 0
        /\ gr_is_zero(Written[Len(Written)]) # "T_TRUE") => cRet.res = Written

\* polynomial_i whose gr_i fails and leaves a coefficient that cannot be
\* decided to be zero: the coefficient is kept.
C10_Witness ==
    /\ cCall.op = "i"
    /\ cCall.o.status = GR_UNABLE
    /\ cCall.o.val = ZeroQ
    /\ cRet.res = <<ZeroQ>>

(***************************************************************************)
(* Claims about SpecMixed.                                                 *)
(***************************************************************************)
\* The foreign context is neither the base ring nor a polynomial ring over
\* the same base ring with the same generator name.
NeedsTemp ==
    /\ mCall.op # "none"
    /\ mCall.x_ctx # CtxTable[mCall.ctx].base
    /\ ~(/\ CtxTable[mCall.x_ctx].which_ring = "GR_CTX_GR_POLY"
         /\ CtxTable[mCall.x_ctx].base = CtxTable[mCall.ctx].base
         /\ CtxTable[mCall.x_ctx].var = CtxTable[mCall.ctx].var)

Coerced == polynomial_set_other(mCall.x, mCall.x_ctx, mCall.ctx, mCall.o)

\* C11: with such a foreign context polynomial_mul_other and
\* polynomial_other_mul create one temporary, fill it by polynomial_set_other,
\* call polynomial_mul only when that returned Success, and have released the
\* temporary exactly once when they return; when the coercion failed they
\* return its status and res is as it was on entry.
C11_Temporary ==
    NeedsTemp =>
        /\ mTemp.clears <= mTemp.inits
        /\ mTemp.inits <= 1
        /\ mTemp.live <=> (mTemp.inits = 1 /\ mTemp.clears = 0)
        /\ mPc \in {"mul", "clear", "done"} => mTemp.val = Coerced.res
        /\ mRet.muls <= 1
        /\ mRet.muls = 1 => Coerced.status = GR_SUCCESS
        /\ mPc = "done" =>
              /\ mTemp.inits = 1
              /\ mTemp.clears = 1
              /\ Coerced.status = GR_SUCCESS => mRet.muls = 1
              /\ Coerced.status # GR_SUCCESS =>
                    (mRet.status = Coerced.status /\ mRet.res = mCall.res)

\* polynomial_mul_other with a scalar of S that R refuses: returned with
\* Domain-error, the temporary released, res still the operand it was.
C11_Witness ==
    /\ NeedsTemp
    /\ mPc = "done"
    /\ mCall.op = "mul_other"
    /\ mCall.x_ctx = "S"
    /\ mCall.resIsPoly
    /\ Len(mCall.poly) > 0
    /\ mRet.status = GR_DOMAIN
    /\ mRet.res = mCall.poly
    /\ mRet.muls = 0
    /\ mTemp.clears = 1
    /\ ~mTemp.live

(***************************************************************************)
(* Claims about SpecAlias.                                                 *)
(***************************************************************************)
\* polynomial_div called with a res that is no operand and the same x, y.
Distinct == polynomial_div(dCall.x, dCall.y, FALSE)

\* C12: for len(y) = 1, polynomial_div with res the same element as y returns
\* the status and the quotient of the call with a distinct res and an equal
\* y; the scalar temporary holds y[0] as it was on entry while res is
\* written, and has been released exactly once at the return.
C12_Aliasing ==
    /\ dMem.clears <= dMem.inits
    /\ dMem.inits <= 1
    /\ dMem.live <=> (dMem.inits = 1 /\ dMem.clears = 0)
    /\ (dCall.op = "div" /\ dCall.resIsY /\ dPc \in {"div_scalar", "tmp_clear"})
          => (dMem.live /\ dMem.t = dCall.y[1])
    /\ dPc = "done" =>
          /\ dStatus = Distinct.status
          /\ dMem.res = Distinct.res
          /\ dCall.resIsY => (dMem.inits = 1 /\ dMem.clears = 1)
          /\ ~dCall.resIsY => dMem.inits = 0

\* res is y, x has two coefficients and the quotient's constant coefficient
\* differs from y[0]: the second division still used the y[0] of entry.
C12_Witness ==
    /\ dPc = "done"
    /\ dCall.resIsY
    /\ Len(dCall.x) > 1
    /\ dStatus = GR_SUCCESS
    /\ Len(dMem.res) > 1
    /\ dMem.res[1] # dCall.y[1]
    /\ dMem.clears = 1

\* The other route: coerce the scalar with polynomial_set_other, then
\* polynomial_mul with the operands in the order of the call.
CoerceThenMul ==
    IF Coerced.status # GR_SUCCESS THEN [status |-> Coerced.status, res |-> mCall.res]
    ELSE IF mCall.op = "mul_other"
         THEN polynomial_mul(mCall.res, mCall.poly, Coerced.res, mCall.degree_limit)
         ELSE polynomial_mul(mCall.res, Coerced.res, mCall.poly, mCall.degree_limit)

\* C13: with a scalar of the base ring, polynomial_mul_other and
\* polynomial_other_mul return the status and the result of coercing the
\* scalar with polynomial_set_other and multiplying with polynomial_mul,
\* under every degree ceiling.
C13_BranchConsistency ==
    (mPc = "done" /\ mCall.x_ctx = CtxTable[mCall.ctx].base) =>
        /\ mRet.status = CoerceThenMul.status
        /\ mRet.res = CoerceThenMul.res

====
